---- MODULE Spec2Model ----
(***************************************************************************)
(* Personal finance tracker (ETP): the transaction store of database.py,   *)
(* the rule-based responder of chatbot.py and the page script of app.py.   *)
(*                                                                         *)
(* Amounts are exact integers (the REAL column is modelled without binary  *)
(* rounding).  Dates are <<year, month, day>> triples; comparing two of    *)
(* them lexicographically is the comparison of their ISO-8601 strings.     *)
(* The created_at column is never read by the code and is left out.        *)
(***************************************************************************)
EXTENDS Integers, Sequences, FiniteSets, TLC

VARIABLES
    rows,          \* table transactions, in ascending rowid order
    seq,           \* sqlite_sequence.seq of table transactions
    op,            \* last store operation and its arguments
    added,         \* arguments of the add_transaction calls, in call order,
                   \* kept until delete_transaction is first called
    deleted,       \* whether delete_transaction has been called
    history,       \* every record the table has held, deleted ones included
    session,       \* st.session_state: whether it has the key "transactions",
                   \* and the list stored under it
    page,          \* page selected in the sidebar radio, or NoPage
    draft,         \* text typed into st.chat_input, as the pieces typed
    transactions,  \* list handed to get_chatbot_response
    prompt,        \* user_input of the last get_chatbot_response call
    symbol,        \* currency_symbol of that call
    response,      \* value returned by the last get_chatbot_response call
    branch,        \* number of the dispatch branch taken by that call
    earlier        \* an earlier call: its arguments and its result

vars == <<rows, seq, op, added, deleted, history, session, page, draft, transactions,
          prompt, symbol, response, branch, earlier>>

storeVars == <<rows, seq, op, added, deleted, history>>
chatVars == <<draft, transactions, prompt, symbol, response, branch, earlier>>
appVars == <<session, page>>

----------------------------------------------------------------------------
(* Bounds *)

MaxAdds == 3
MaxFragments == 2
MaxLen == 2
MaxStored == 2
MaxTrendLen == 3

----------------------------------------------------------------------------
(* Values *)

NoPage == "none"
\* a nullable SQL number: NULL, or Number(n)
NULL == [null |-> TRUE, value |-> 0]
Number(n) == [null |-> FALSE, value |-> n]

Today == <<2024, 3, 15>>

Types == {"income", "expense"}

\* a < b for ISO date strings
DateLT(a, b) ==
    \/ a[1] < b[1]
    \/ a[1] = b[1] /\ a[2] < b[2]
    \/ a[1] = b[1] /\ a[2] = b[2] /\ a[3] < b[3]

DateLE(a, b) == a = b \/ DateLT(a, b)

Args(type, category, amount, date, description) ==
    [type |-> type, category |-> category, amount |-> amount,
     date |-> date, description |-> description]

Row(id, a) ==
    [id |-> id, type |-> a.type, category |-> a.category, amount |-> a.amount,
     date |-> a.date, description |-> a.description]

Fields(r) == Args(r.type, r.category, r.amount, r.date, r.description)

NoArgs == Args("", "", 0, <<0, 0, 0>>, "")

\* arguments the store operations are called with
StoreInputs ==
    { Args(t, IF t = "income" THEN "Salary" ELSE "Food", a, d,
           IF a = 2 THEN "note" ELSE "") :
        t \in Types, a \in {1, 2}, d \in {<<2024, 3, 15>>, <<2024, 2, 13>>} }

----------------------------------------------------------------------------
(* database.py *)

RECURSIVE MaxId(_)
MaxId(rs) ==
    IF rs = <<>> THEN 0
    ELSE LET m == MaxId(Tail(rs)) IN IF Head(rs).id > m THEN Head(rs).id ELSE m

\* (a rowid taken from the number of rows)
NextRowidByCount(rs, s) == Len(rs) + 1

\* (INTEGER PRIMARY KEY without AUTOINCREMENT: one more than the largest
\* rowid in the table)
NextRowidFromMax(rs, s) == MaxId(rs) + 1

\* INTEGER PRIMARY KEY AUTOINCREMENT: one more than the largest rowid ever used
NextRowid(rs, s) == (IF s > MaxId(rs) THEN s ELSE MaxId(rs)) + 1

\* (a sort that does not keep the scan order of equal dates)
RECURSIVE InsertByDateDescUnstable(_, _)
InsertByDateDescUnstable(r, sorted) ==
    IF sorted = <<>> THEN <<r>>
    ELSE IF DateLE(Head(sorted).date, r.date) THEN <<r>> \o sorted
    ELSE <<Head(sorted)>> \o InsertByDateDescUnstable(r, Tail(sorted))

\* put r behind every row of the sorted list whose date is not earlier
RECURSIVE InsertByDateDesc(_, _)
InsertByDateDesc(r, sorted) ==
    IF sorted = <<>> THEN <<r>>
    ELSE IF DateLT(Head(sorted).date, r.date) THEN <<r>> \o sorted
    ELSE <<Head(sorted)>> \o InsertByDateDesc(r, Tail(sorted))

\* ORDER BY date DESC over a rowid scan; rows of equal date keep scan order
RECURSIVE OrderByDateDesc(_)
OrderByDateDesc(rs) ==
    IF rs = <<>> THEN <<>>
    ELSE InsertByDateDesc(rs[Len(rs)], OrderByDateDesc(SubSeq(rs, 1, Len(rs) - 1)))

get_transactions(rs) == OrderByDateDesc(rs)

\* SELECT SUM(amount) ... WHERE type = ty: NULL when no row matches
RECURSIVE SumAmount(_)
SumAmount(rs) ==
    IF rs = <<>> THEN 0 ELSE Head(rs).amount + SumAmount(Tail(rs))

\* (a sum without its WHERE clause)
SqlSumAnyType(rs, ty) == IF rs = <<>> THEN NULL ELSE Number(SumAmount(rs))

SqlSum(rs, ty) ==
    LET sel == SelectSeq(rs, LAMBDA r : r.type = ty)
    IN IF sel = <<>> THEN NULL ELSE Number(SumAmount(sel))

\* Python's  x or 0
OrZero(x) == IF x.null \/ x.value = 0 THEN 0 ELSE x.value

get_summary(rs) ==
    LET total_income == OrZero(SqlSum(rs, "income"))
        total_expenses == OrZero(SqlSum(rs, "expense"))
    IN [total_income |-> total_income,
        total_expenses |-> total_expenses,
        balance |-> total_income - total_expenses]

\* (a delete that also takes the rows inserted before id)
DeleteUpToId(rs, id) == SelectSeq(rs, LAMBDA r : r.id > id)

DeleteWhereId(rs, id) == SelectSeq(rs, LAMBDA r : r.id # id)

add_transaction(a) ==
    /\ LET id == NextRowid(rows, seq)
       IN /\ rows' = Append(rows, Row(id, a))
          /\ seq' = id
          /\ history' = history \cup {Row(id, a)}
    /\ op' = [name |-> "add", id |-> 0, args |-> a]
    /\ added' = IF deleted THEN added ELSE Append(added, a)
    /\ UNCHANGED deleted

delete_transaction(id) ==
    /\ rows' = DeleteWhereId(rows, id)
    /\ op' = [name |-> "delete", id |-> id, args |-> NoArgs]
    /\ deleted' = TRUE
    /\ added' = <<>>
    /\ UNCHANGED <<seq, history>>

----------------------------------------------------------------------------
(* Text: a string is the sequence of its characters *)

UpperCase == <<"A", "B", "C", "D", "E", "F", "G", "H", "I", "J", "K", "L", "M",
               "N", "O", "P", "Q", "R", "S", "T", "U", "V", "W", "X", "Y", "Z">>
LowerCase == <<"a", "b", "c", "d", "e", "f", "g", "h", "i", "j", "k", "l", "m",
               "n", "o", "p", "q", "r", "s", "t", "u", "v", "w", "x", "y", "z">>

LowerChar(c) ==
    IF \E i \in DOMAIN UpperCase : UpperCase[i] = c
    THEN LowerCase[CHOOSE i \in DOMAIN UpperCase : UpperCase[i] = c]
    ELSE c

\* (a lower() that leaves the text as typed)
LowerNone(s) == s

\* str.lower()
Lower(s) == [i \in DOMAIN s |-> LowerChar(s[i])]

\* Python's  needle in hay
Contains(needle, hay) ==
    \E k \in 0..(Len(hay) - Len(needle)) :
        SubSeq(hay, k + 1, k + Len(needle)) = needle

KwSpend == <<"s", "p", "e", "n", "d">>
KwMonth == <<"m", "o", "n", "t", "h">>
KwTotalExpense == <<"t", "o", "t", "a", "l", " ", "e", "x", "p", "e", "n", "s", "e">>
KwHowMuchDidISpend == <<"h", "o", "w", " ", "m", "u", "c", "h", " ", "d", "i", "d", " ", "i", " ", "s", "p", "e", "n", "d">>
KwTotalIncome == <<"t", "o", "t", "a", "l", " ", "i", "n", "c", "o", "m", "e">>
KwHowMuchDidIEarn == <<"h", "o", "w", " ", "m", "u", "c", "h", " ", "d", "i", "d", " ", "i", " ", "e", "a", "r", "n">>
KwBalance == <<"b", "a", "l", "a", "n", "c", "e">>
KwHowMuchDoIHave == <<"h", "o", "w", " ", "m", "u", "c", "h", " ", "d", "o", " ", "i", " ", "h", "a", "v", "e">>
KwBudget == <<"b", "u", "d", "g", "e", "t">>
KwSuggest == <<"s", "u", "g", "g", "e", "s", "t">>
KwBreakdown == <<"b", "r", "e", "a", "k", "d", "o", "w", "n">>
KwCategory == <<"c", "a", "t", "e", "g", "o", "r", "y">>
KwTrend == <<"t", "r", "e", "n", "d">>
KwPattern == <<"p", "a", "t", "t", "e", "r", "n">>
KwSave == <<"s", "a", "v", "e">>
KwTip == <<"t", "i", "p">>

----------------------------------------------------------------------------
(* Numbers: a quotient n/d with d > 0; d = 0 is a raised ZeroDivisionError *)

ZeroDivision == [n |-> 0, d |-> 0]

Whole(x) == [n |-> x, d |-> 1]

\* Python's  n / d
Quotient(n, d) ==
    IF d = 0 THEN ZeroDivision
    ELSE IF d < 0 THEN [n |-> 0 - n, d |-> 0 - d]
    ELSE [n |-> n, d |-> d]

Raises(q) == q.d = 0

Times(q, k) == [n |-> q.n * k, d |-> q.d]

Abs(x) == IF x < 0 THEN 0 - x ELSE x

RoundHalfEven(n, d) ==
    LET a == Abs(n)
        f == a \div d
        r == a % d
        m == IF 2 * r > d THEN f + 1
             ELSE IF 2 * r < d THEN f
             ELSE IF f % 2 = 0 THEN f ELSE f + 1
    IN IF n < 0 THEN 0 - m ELSE m

\* f"{q:.2f}": the number of hundredths printed
Fmt2(q) == RoundHalfEven(q.n * 100, q.d)

\* f"{q:.1f}": the number of tenths printed
Fmt1(q) == RoundHalfEven(q.n * 10, q.d)

----------------------------------------------------------------------------
(* Calendar: datetime.now() - timedelta(days=k), printed "%Y-%m-%d" *)

DaysFromCivil(date) ==
    LET y == IF date[2] <= 2 THEN date[1] - 1 ELSE date[1]
        m == date[2]
        era == y \div 400
        yoe == y - era * 400
        doy == (153 * (IF m > 2 THEN m - 3 ELSE m + 9) + 2) \div 5 + date[3] - 1
        doe == yoe * 365 + yoe \div 4 - yoe \div 100 + doy
    IN era * 146097 + doe - 719468

CivilFromDays(days) ==
    LET z == days + 719468
        era == z \div 146097
        doe == z - era * 146097
        yoe == (doe - doe \div 1460 + doe \div 36524 - doe \div 146096) \div 365
        doy == doe - (365 * yoe + yoe \div 4 - yoe \div 100)
        mp == (5 * doy + 2) \div 153
        d == doy - (153 * mp + 2) \div 5 + 1
        m == IF mp < 10 THEN mp + 3 ELSE mp - 9
        y == yoe + era * 400
    IN <<IF m <= 2 THEN y + 1 ELSE y, m, d>>

\* (a window that starts one day late)
DaysAgoExclusive(k) == CivilFromDays(DaysFromCivil(Today) - k + 1)

DaysAgo(k) == CivilFromDays(DaysFromCivil(Today) - k)

\* t['date'].startswith(datetime.now().strftime("%Y-%m"))
InCurrentMonth(date) == date[1] = Today[1] /\ date[2] = Today[2]

----------------------------------------------------------------------------
(* chatbot.py *)

Response(kind, currency_symbol, items, total, note) ==
    [kind |-> kind, symbol |-> currency_symbol, items |-> items, total |-> total,
     note |-> note]

Item(label, amount, percent) ==
    [label |-> label, amount |-> amount, percent |-> percent]

NoResponse == Response("none", "", <<>>, 0, <<>>)

\* the exception that leaves get_chatbot_response instead of a string
RaisedZeroDivision == Response("ZeroDivisionError", "", <<>>, 0, <<>>)

Message(kind) == Response(kind, "", <<>>, 0, <<>>)

RECURSIVE SumExpenses(_)
SumExpenses(txs) ==
    IF txs = <<>> THEN 0
    ELSE (IF Head(txs).type = "expense" THEN Head(txs).amount ELSE 0)
         + SumExpenses(Tail(txs))

get_monthly_spending(txs, currency_symbol) ==
    LET monthly_expenses ==
            SumExpenses(SelectSeq(txs, LAMBDA t : InCurrentMonth(t.date)))
    IN Response("monthly_spending", currency_symbol, <<>>, Fmt2(Whole(monthly_expenses)), <<>>)

\* (the 50/30/20 rule the comment names: 20 percent to savings)
BudgetSharesFiftyThirtyTwenty ==
    << [category |-> "Food", percent |-> 15],
       [category |-> "Transport", percent |-> 10],
       [category |-> "Entertainment", percent |-> 10],
       [category |-> "Utilities", percent |-> 10],
       [category |-> "Healthcare", percent |-> 5],
       [category |-> "Shopping", percent |-> 10],
       [category |-> "Savings", percent |-> 20] >>

BudgetShares ==
    << [category |-> "Food", percent |-> 15],
       [category |-> "Transport", percent |-> 10],
       [category |-> "Entertainment", percent |-> 10],
       [category |-> "Utilities", percent |-> 10],
       [category |-> "Healthcare", percent |-> 5],
       [category |-> "Shopping", percent |-> 10],
       [category |-> "Savings", percent |-> 40] >>

get_budget_recommendation(txs, currency_symbol) ==
    LET summary == get_summary(rows)
        total_income == summary.total_income
    IN IF total_income = 0 THEN Message("add_income_prompt")
       ELSE Response("recommended_budget", currency_symbol,
                [i \in DOMAIN BudgetShares |->
                    Item(BudgetShares[i].category,
                         Fmt2(Quotient(total_income * BudgetShares[i].percent, 100)),
                         0)],
                Fmt2(Whole(total_income)), <<>>)

\* category_totals[category] = category_totals.get(category, 0) + amount;
\* a dict keeps its keys in first-insertion order
AddToCategory(totals, category, amount) ==
    IF \E i \in DOMAIN totals : totals[i].category = category
    THEN [i \in DOMAIN totals |->
            IF totals[i].category = category
            THEN [category |-> category, amount |-> totals[i].amount + amount]
            ELSE totals[i]]
    ELSE Append(totals, [category |-> category, amount |-> amount])

RECURSIVE CategoryTotalsFrom(_, _)
CategoryTotalsFrom(txs, totals) ==
    IF txs = <<>> THEN totals
    ELSE CategoryTotalsFrom(Tail(txs),
            IF Head(txs).type = "expense"
            THEN AddToCategory(totals, Head(txs).category, Head(txs).amount)
            ELSE totals)

CategoryTotals(txs) == CategoryTotalsFrom(txs, <<>>)

RECURSIVE SumTotals(_)
SumTotals(totals) ==
    IF totals = <<>> THEN 0 ELSE Head(totals).amount + SumTotals(Tail(totals))

RECURSIVE InsertByAmountDesc(_, _)
InsertByAmountDesc(e, sorted) ==
    IF sorted = <<>> THEN <<e>>
    ELSE IF Head(sorted).amount < e.amount THEN <<e>> \o sorted
    ELSE <<Head(sorted)>> \o InsertByAmountDesc(e, Tail(sorted))

\* (the categories left in dict order)
Unsorted(totals) == totals

\* sorted(items, key=amount, reverse=True): stable
RECURSIVE SortedByAmountDesc(_)
SortedByAmountDesc(totals) ==
    IF totals = <<>> THEN <<>>
    ELSE InsertByAmountDesc(totals[Len(totals)],
            SortedByAmountDesc(SubSeq(totals, 1, Len(totals) - 1)))

\* (a share computed without its guard)
PercentageUnguarded(amount, total) == Times(Quotient(amount, total), 100)

\* (amount / total * 100) if total > 0 else 0
Percentage(amount, total) ==
    IF total > 0 THEN Times(Quotient(amount, total), 100) ELSE Whole(0)

get_expense_breakdown(txs, currency_symbol) ==
    LET category_totals == CategoryTotals(txs)
        total_expenses == SumTotals(category_totals)
        sorted == SortedByAmountDesc(category_totals)
        percentage(i) == Percentage(sorted[i].amount, total_expenses)
    IN IF category_totals = <<>> THEN Message("no_expenses")
       ELSE IF \E i \in DOMAIN sorted : Raises(percentage(i))
       THEN RaisedZeroDivision
       ELSE Response("expense_breakdown", currency_symbol,
                [i \in DOMAIN sorted |->
                    Item(sorted[i].category, Fmt2(Whole(sorted[i].amount)),
                         Fmt1(percentage(i)))],
                Fmt2(Whole(total_expenses)), <<>>)

get_spending_trends(txs, currency_symbol) ==
    LET thirty_days_ago == DaysAgo(30)
        recent_transactions ==
            SelectSeq(txs, LAMBDA t : DateLE(thirty_days_ago, t.date))
        total_recent == SumExpenses(recent_transactions)
        avg_daily == Quotient(total_recent, 30)
        sixty_days_ago == DaysAgo(60)
        previous_period ==
            SelectSeq(txs, LAMBDA t : /\ DateLE(sixty_days_ago, t.date)
                                      /\ DateLT(t.date, thirty_days_ago)
                                      /\ t.type = "expense")
        prev_total == SumAmount(previous_period)
        change == Percentage(total_recent - prev_total, prev_total)
        direction == IF change.n > 0 THEN "increase"
                     ELSE IF change.n < 0 THEN "decrease" ELSE "no change"
    IN IF txs = <<>> THEN Message("no_transactions")
       ELSE IF recent_transactions = <<>> THEN Message("no_recent_transactions")
       ELSE IF Raises(avg_daily) \/ (previous_period # <<>> /\ Raises(change))
       THEN RaisedZeroDivision
       ELSE Response("spending_trends", currency_symbol,
                << Item("Total spending", Fmt2(Whole(total_recent)), 0),
                   Item("Average daily spending", Fmt2(avg_daily), 0) >>
                \o (IF previous_period # <<>>
                    THEN << Item(direction, 0,
                                 Fmt1([n |-> Abs(change.n), d |-> change.d])) >>
                    ELSE <<>>),
                0, <<>>)

TipCategories ==
    {"Food", "Transport", "Entertainment", "Shopping", "Utilities", "Healthcare"}

get_savings_tips(txs, currency_symbol) ==
    LET category_totals == CategoryTotals(txs)
        \* max(category_totals, key=category_totals.get): the first maximum
        highest ==
            CHOOSE i \in DOMAIN category_totals :
                /\ \A j \in DOMAIN category_totals :
                      category_totals[j].amount <= category_totals[i].amount
                /\ \A j \in 1..(i - 1) :
                      category_totals[j].amount < category_totals[i].amount
        highest_category == category_totals[highest].category
    IN IF category_totals = <<>> THEN Message("start_tracking")
       ELSE Response("savings_tips", currency_symbol,
                << Item(highest_category,
                        Fmt2(Whole(category_totals[highest].amount)), 0) >>,
                0,
                << IF highest_category \in TipCategories
                   THEN highest_category ELSE "Consider reducing this expense." >>)

\* (the top tier starting above 40 instead of at 40)
SavingsCommentaryAbove(savings_rate) ==
    IF savings_rate.n < 20 * savings_rate.d
    THEN << "Great job", "increase to at least 20%" >>
    ELSE IF savings_rate.n > 40 * savings_rate.d
    THEN << "Great job", "Excellent savings rate" >>
    ELSE << "Great job" >>

\* the lines that follow the savings rate of a positive balance
SavingsCommentary(savings_rate) ==
    IF savings_rate.n < 20 * savings_rate.d
    THEN << "Great job", "increase to at least 20%" >>
    ELSE IF savings_rate.n >= 40 * savings_rate.d
    THEN << "Great job", "Excellent savings rate" >>
    ELSE << "Great job" >>

get_financial_insights(txs, currency_symbol) ==
    LET summary == get_summary(rows)
        savings_rate == Percentage(summary.balance, summary.total_income)
        overview ==
            << Item("Total Income", Fmt2(Whole(summary.total_income)), 0),
               Item("Total Expenses", Fmt2(Whole(summary.total_expenses)), 0),
               Item("Current Balance", Fmt2(Whole(summary.balance)), 0) >>
    IN IF summary.balance > 0
       THEN IF Raises(savings_rate) THEN RaisedZeroDivision
            ELSE Response("financial_overview", currency_symbol,
                    overview \o << Item("saving", 0, Fmt1(savings_rate)) >>, 0,
                    SavingsCommentary(savings_rate))
       ELSE IF summary.balance < 0
       THEN Response("financial_overview", currency_symbol, overview, 0,
                << "spending more than you earn" >>)
       ELSE Response("financial_overview", currency_symbol, overview, 0,
                << "balanced" >>)

\* the branch of the if/elif chain that user_input selects
Dispatch(user_input) ==
    LET user_input_lower == Lower(user_input)
    IN IF Contains(KwSpend, user_input_lower) /\ Contains(KwMonth, user_input_lower)
       THEN 1
       ELSE IF \/ Contains(KwTotalExpense, user_input_lower)
               \/ Contains(KwHowMuchDidISpend, user_input_lower)
       THEN 2
       ELSE IF \/ Contains(KwTotalIncome, user_input_lower)
               \/ Contains(KwHowMuchDidIEarn, user_input_lower)
       THEN 3
       ELSE IF \/ Contains(KwBalance, user_input_lower)
               \/ Contains(KwHowMuchDoIHave, user_input_lower)
       THEN 4
       ELSE IF Contains(KwBudget, user_input_lower) \/ Contains(KwSuggest, user_input_lower)
       THEN 5
       ELSE IF Contains(KwBreakdown, user_input_lower) \/ Contains(KwCategory, user_input_lower)
       THEN 6
       ELSE IF Contains(KwTrend, user_input_lower) \/ Contains(KwPattern, user_input_lower)
       THEN 7
       ELSE IF Contains(KwSave, user_input_lower) \/ Contains(KwTip, user_input_lower)
       THEN 8
       ELSE 9

get_chatbot_response(user_input, txs, currency_symbol) ==
    LET b == Dispatch(user_input)
    IN CASE b = 1 -> get_monthly_spending(txs, currency_symbol)
         [] b = 2 -> Response("total_expenses", currency_symbol, <<>>,
                        Fmt2(Whole(get_summary(rows).total_expenses)), <<>>)
         [] b = 3 -> Response("total_income", currency_symbol, <<>>,
                        Fmt2(Whole(get_summary(rows).total_income)), <<>>)
         [] b = 4 -> Response("current_balance", currency_symbol, <<>>,
                        Fmt2(Whole(get_summary(rows).balance)), <<>>)
         [] b = 5 -> get_budget_recommendation(txs, currency_symbol)
         [] b = 6 -> get_expense_breakdown(txs, currency_symbol)
         [] b = 7 -> get_spending_trends(txs, currency_symbol)
         [] b = 8 -> get_savings_tips(txs, currency_symbol)
         [] OTHER -> get_financial_insights(txs, currency_symbol)

Call(user_input, txs, currency_symbol, result) ==
    [user_input |-> user_input, transactions |-> txs,
     currency_symbol |-> currency_symbol, result |-> result]

NoCall == Call(<<>>, <<>>, "", NoResponse)

\* one call of get_chatbot_response
Ask(user_input, txs, currency_symbol) ==
    /\ prompt' = user_input
    /\ symbol' = currency_symbol
    /\ transactions' = txs
    /\ branch' = Dispatch(user_input)
    /\ response' = get_chatbot_response(user_input, txs, currency_symbol)

----------------------------------------------------------------------------
(* Initial state: init_db() on a new database file, no browser session *)

init_db ==
    /\ rows = <<>>
    /\ seq = 0

Init ==
    /\ init_db
    /\ op = [name |-> "init", id |-> 0, args |-> NoArgs]
    /\ added = <<>>
    /\ deleted = FALSE
    /\ history = {}
    /\ session = [has_transactions |-> FALSE, transactions |-> <<>>]
    /\ page = NoPage
    /\ draft = <<>>
    /\ transactions = <<>>
    /\ prompt = <<>>
    /\ symbol = ""
    /\ response = NoResponse
    /\ branch = 0
    /\ earlier = NoCall

----------------------------------------------------------------------------
(* The store driven directly: any adds and deletes *)

StoreAdd ==
    \E a \in StoreInputs :
        /\ seq < MaxAdds
        /\ add_transaction(a)
        /\ UNCHANGED <<chatVars, appVars>>

StoreDelete ==
    \E id \in 1..(MaxAdds + 1) :
        /\ delete_transaction(id)
        /\ UNCHANGED <<chatVars, appVars>>

StoreNext == StoreAdd \/ StoreDelete

StoreSpec == Init /\ [][StoreNext]_vars

----------------------------------------------------------------------------
(* Properties of the store *)

Range(f) == { f[i] : i \in DOMAIN f }

Ids(rs) == { rs[i].id : i \in DOMAIN rs }

RECURSIVE SumOfIds(_, _)
SumOfIds(rs, ids) ==
    IF ids = {} THEN 0
    ELSE LET id == CHOOSE x \in ids : TRUE
             r == CHOOSE x \in Range(rs) : x.id = id
         IN r.amount + SumOfIds(rs, ids \ {id})

IdsOfType(rs, ty) == { r.id : r \in { x \in Range(rs) : x.type = ty } }

Orderings(n) ==
    { p \in [1..n -> 1..n] : \A i, j \in 1..n : p[i] = p[j] => i = j }

Permuted(rs, p) == [i \in 1..Len(rs) |-> rs[p[i]]]

C2_DeleteFrame ==
    [][ op'.name = "delete" =>
          LET id == op'.id
              before == get_transactions(rows)
              after == get_transactions(rows')
          IN /\ \A i \in 1..Len(after) : after[i].id # id
             /\ \A r \in Range(before) : r.id # id => r \in Range(after)
             /\ Range(after) \subseteq Range(before)
             /\ Len(after) = Cardinality(Range(after))
             /\ id \notin Ids(rows) => rows' = rows /\ seq' = seq
      ]_vars

\* a delete of one of two stored records has happened
C2_Witness ==
    /\ op.name = "delete"
    /\ Len(rows) = 1
    /\ seq = 2
    /\ op.id \in 1..2
    /\ op.id \notin Ids(rows)

\* C3: get_summary gives the sum of the stored income amounts, the sum of the
\* stored expense amounts and their difference; every reordering of the
\* stored rows gives the same summary; an empty store gives {0, 0, 0}.
C3_Summary ==
    LET s == get_summary(rows)
    IN /\ s.total_income = SumOfIds(rows, IdsOfType(rows, "income"))
       /\ s.total_expenses = SumOfIds(rows, IdsOfType(rows, "expense"))
       /\ s.balance = s.total_income - s.total_expenses
       /\ \A p \in Orderings(Len(rows)) :
             get_summary(Permuted(rows, p)) = s
       /\ rows = <<>> =>
             s = [total_income |-> 0, total_expenses |-> 0, balance |-> 0]

\* after a delete removed a record, an income and an expense are stored
C3_Witness ==
    /\ op.name = "delete"
    /\ seq = 3
    /\ Cardinality(IdsOfType(rows, "income")) = 1
    /\ Cardinality(IdsOfType(rows, "expense")) = 1
    /\ get_summary(rows).balance = 1

\* C4: stored ids are pairwise distinct; a record that is still stored after
\* a step is unchanged, and a record leaves the store only in a
\* delete_transaction step for its own id.
C4_Unique == \A i, j \in 1..Len(rows) : rows[i].id = rows[j].id => i = j

C4_Stable ==
    \A r \in Range(rows) :
        /\ r.id \in Ids(rows') => r \in Range(rows')
        /\ r.id \notin Ids(rows') => op'.name = "delete" /\ op'.id = r.id

C4_IdUniqueStable == [](C4_Unique) /\ [][C4_Stable]_vars

\* a record was added after an earlier one had been deleted
C4_Witness ==
    /\ op.name = "add"
    /\ deleted
    /\ Len(rows) = 2
    /\ seq = 3

----------------------------------------------------------------------------
(* get_chatbot_response on typed text: the dispatch *)

\* pieces of text typed into the chat input
Fragments ==
    { <<"s", "p", "e", "n", "d">>,
      <<" ", "t", "h", "i", "s", " ", "M", "O", "N", "T", "H">>,
      <<"T", "o", "t", "a", "l", " ", "E", "x", "p", "e", "n", "s", "e">>,
      <<"h", "o", "w", " ", "m", "u", "c", "h", " ", "d", "i", "d", " ", "I", " ", "s", "p", "e", "n", "d">>,
      <<"t", "o", "t", "a", "l", " ", "i", "n", "c", "o", "m", "e">>,
      <<"H", "o", "w", " ", "M", "u", "c", "h", " ", "D", "i", "d", " ", "I", " ", "E", "a", "r", "n">>,
      <<"B", "A", "L", "A", "N", "C", "E">>,
      <<"h", "o", "w", " ", "m", "u", "c", "h", " ", "d", "o", " ", "i", " ", "h", "a", "v", "e">>,
      <<"B", "u", "d", "g", "e", "t">>,
      <<"s", "u", "g", "g", "e", "s", "t">>,
      <<"b", "r", "e", "a", "k", "d", "o", "w", "n">>,
      <<"C", "a", "t", "e", "g", "o", "r", "y">>,
      <<"t", "r", "e", "n", "d">>,
      <<"P", "A", "T", "T", "E", "R", "N">>,
      <<"s", "a", "v", "e">>,
      <<"T", "i", "p">>,
      <<"h", "e", "l", "l", "o", " ">>,
      <<"t", "o", "t">>,
      <<"a", "l", " ", "i", "n", "c", "o", "m", "e">> }

RECURSIVE Text(_)
Text(pieces) == IF pieces = <<>> THEN <<>> ELSE Head(pieces) \o Text(Tail(pieces))

DispatchType ==
    \E f \in Fragments :
        /\ branch = 0
        /\ Len(draft) < MaxFragments
        /\ draft' = Append(draft, f)
        /\ UNCHANGED <<storeVars, appVars, transactions, prompt, symbol, response,
                       branch, earlier>>

DispatchAsk ==
    \E currency_symbol \in {"$", "euro"} :
        /\ branch = 0
        /\ Ask(Text(draft), transactions, currency_symbol)
        /\ UNCHANGED <<storeVars, appVars, draft, earlier>>

DispatchNext == DispatchType \/ DispatchAsk

DispatchSpec == Init /\ [][DispatchNext]_vars

\* keyword occurs in text, letter case ignored
OccursAnyCase(keyword, text) ==
    \E k \in 0..(Len(text) - Len(keyword)) :
        \A j \in 1..Len(keyword) : LowerChar(text[k + j]) = keyword[j]

Rule(i, text) ==
    CASE i = 1 -> OccursAnyCase(KwSpend, text) /\ OccursAnyCase(KwMonth, text)
      [] i = 2 -> \/ OccursAnyCase(KwTotalExpense, text)
                  \/ OccursAnyCase(KwHowMuchDidISpend, text)
      [] i = 3 -> \/ OccursAnyCase(KwTotalIncome, text)
                  \/ OccursAnyCase(KwHowMuchDidIEarn, text)
      [] i = 4 -> \/ OccursAnyCase(KwBalance, text)
                  \/ OccursAnyCase(KwHowMuchDoIHave, text)
      [] i = 5 -> OccursAnyCase(KwBudget, text) \/ OccursAnyCase(KwSuggest, text)
      [] i = 6 -> OccursAnyCase(KwBreakdown, text) \/ OccursAnyCase(KwCategory, text)
      [] i = 7 -> OccursAnyCase(KwTrend, text) \/ OccursAnyCase(KwPattern, text)
      [] i = 8 -> OccursAnyCase(KwSave, text) \/ OccursAnyCase(KwTip, text)

\* what each handler can return
HandlerKinds(b) ==
    CASE b = 1 -> {"monthly_spending"}
      [] b = 2 -> {"total_expenses"}
      [] b = 3 -> {"total_income"}
      [] b = 4 -> {"current_balance"}
      [] b = 5 -> {"add_income_prompt", "recommended_budget"}
      [] b = 6 -> {"no_expenses", "expense_breakdown"}
      [] b = 7 -> {"no_transactions", "no_recent_transactions", "spending_trends"}
      [] b = 8 -> {"start_tracking", "savings_tips"}
      [] b = 9 -> {"financial_overview"}

\* C5: the handler that answers is the one of the lowest-numbered rule the
\* text satisfies with its letter case ignored, and the general overview
\* answers exactly when the text satisfies none of the rules 1-8.
C5_FirstMatchWins ==
    branch # 0 =>
        LET satisfied == { i \in 1..8 : Rule(i, prompt) }
        IN /\ response.kind \in HandlerKinds(branch)
           /\ satisfied = {} <=> branch = 9
           /\ satisfied # {} =>
                 /\ branch \in satisfied
                 /\ \A i \in satisfied : branch <= i

\* a text in mixed case that satisfies rule 2 and rule 1 was answered by rule 1
C5_Witness ==
    /\ branch = 1
    /\ response.kind = "monthly_spending"
    /\ Rule(2, prompt)
    /\ prompt # Lower(prompt)

----------------------------------------------------------------------------
(* get_chatbot_response on prepared arguments and a prepared store *)

\* one text for each dispatch branch
SamplePrompts ==
    { <<"S", "p", "e", "n", "d", " ", "t", "h", "i", "s", " ", "m", "o", "n", "t", "h">>,
      <<"t", "o", "t", "a", "l", " ", "e", "x", "p", "e", "n", "s", "e">>,
      <<"t", "o", "t", "a", "l", " ", "i", "n", "c", "o", "m", "e">>,
      <<"b", "a", "l", "a", "n", "c", "e">>,
      <<"b", "u", "d", "g", "e", "t">>,
      <<"b", "r", "e", "a", "k", "d", "o", "w", "n">>,
      <<"t", "r", "e", "n", "d">>,
      <<"t", "i", "p">>,
      <<"h", "i">> }

\* the records of the transaction lists
ChatRecords ==
    { Args("expense", c, a, d, "") :
        c \in {"Food", "Transport"}, a \in {0, 2, 3},
        d \in {Today, <<2024, 2, 13>>} }
    \cup { Args("income", "Salary", 5, Today, "") }

\* the records of the store behind get_summary
SummaryInputs ==
    { Args("income", "Salary", 0, Today, ""), Args("income", "Salary", 5, Today, ""),
      Args("expense", "Food", 4, Today, "") }

ChatPrepareList ==
    \E a \in ChatRecords :
        /\ branch = 0
        /\ Len(transactions) < MaxLen
        /\ transactions' = Append(transactions, Row(Len(transactions) + 1, a))
        /\ UNCHANGED <<storeVars, appVars, draft, prompt, symbol, response, branch,
                       earlier>>

ChatPrepareStore ==
    \E a \in SummaryInputs :
        /\ branch = 0
        /\ Len(rows) < MaxStored
        /\ add_transaction(a)
        /\ UNCHANGED <<chatVars, appVars>>

ChatAsk ==
    \E user_input \in SamplePrompts :
        /\ branch = 0
        /\ Ask(user_input, transactions, "$")
        /\ UNCHANGED <<storeVars, appVars, draft, earlier>>

ChatNext == ChatPrepareList \/ ChatPrepareStore \/ ChatAsk

ChatSpec == Init /\ [][ChatNext]_vars

\* sum of the amounts at the positions in S
RECURSIVE SumAt(_, _)
SumAt(txs, S) ==
    IF S = {} THEN 0
    ELSE LET i == CHOOSE x \in S : TRUE IN txs[i].amount + SumAt(txs, S \ {i})

ExpensePositions(txs) == { i \in DOMAIN txs : txs[i].type = "expense" }

RECURSIVE SumOfItems(_)
SumOfItems(items) ==
    IF items = <<>> THEN 0 ELSE Head(items).amount + SumOfItems(Tail(items))

\* C8: every call returns a string, none raises ZeroDivisionError; where the
\* denominator of a percentage is zero the answer is the explanatory message
\* or the percentage printed is 0.
C8_NoDivisionFault ==
    branch # 0 =>
        /\ response.kind # "ZeroDivisionError"
        /\ response.kind \in HandlerKinds(branch)
        /\ branch = 5 /\ get_summary(rows).total_income = 0 =>
              response.kind = "add_income_prompt"
        /\ branch = 6 /\ SumAt(transactions, ExpensePositions(transactions)) = 0 =>
              \/ response.kind = "no_expenses"
              \/ \A i \in DOMAIN response.items : response.items[i].percent = 0
        /\ branch = 7 /\ response.kind = "spending_trends" =>
              LET previous == { i \in ExpensePositions(transactions) :
                                  /\ DateLE(DaysAgo(60), transactions[i].date)
                                  /\ DateLT(transactions[i].date, DaysAgo(30)) }
              IN SumAt(transactions, previous) = 0 =>
                    \A i \in DOMAIN response.items : response.items[i].percent = 0
        /\ branch = 9 /\ get_summary(rows).total_income = 0 =>
              \A i \in DOMAIN response.items : response.items[i].percent = 0

\* a breakdown was answered for expenses whose total is zero
C8_Witness ==
    /\ branch = 6
    /\ response.kind = "expense_breakdown"
    /\ Len(response.items) = 2
    /\ response.total = 0

\* C9: get_budget_recommendation answers with the add-income prompt, and no
\* allocation, exactly when get_summary's total income is 0; otherwise it
\* lists the seven allocations 15/10/10/10/5/10/40 percent of total income
\* (amounts in hundredths), which add up to total income.
C9_Shares ==
    << <<"Food", 15>>, <<"Transport", 10>>, <<"Entertainment", 10>>,
       <<"Utilities", 10>>, <<"Healthcare", 5>>, <<"Shopping", 10>>,
       <<"Savings", 40>> >>

C9_Budget ==
    branch = 5 =>
        LET total_income == get_summary(rows).total_income
        IN /\ response.kind = "add_income_prompt" <=> total_income = 0
           /\ response.kind = "add_income_prompt" => response.items = <<>>
           /\ total_income # 0 =>
                 /\ response.kind = "recommended_budget"
                 /\ Len(response.items) = 7
                 /\ \A i \in 1..7 :
                       /\ response.items[i].label = C9_Shares[i][1]
                       /\ response.items[i].amount = total_income * C9_Shares[i][2]
                 /\ SumOfItems(response.items) = total_income * 100

\* a budget was recommended for a total income of 10
C9_Witness ==
    /\ branch = 5
    /\ response.kind = "recommended_budget"
    /\ response.total = 1000
    /\ Len(rows) = 2

\* C10: for a list with at least one expense, get_expense_breakdown lists
\* each category that has an expense once, with the sum of that category's
\* expense amounts (income records ignored) and its share of total expenses
\* in percent (printed as 0 when total expenses are 0), by amount descending,
\* and Total is the sum of the listed amounts.
C10_Breakdown ==
    branch = 6 /\ ExpensePositions(transactions) # {} =>
        LET items == response.items
            categories == { transactions[i].category :
                              i \in ExpensePositions(transactions) }
            of(c) == { i \in ExpensePositions(transactions) :
                         transactions[i].category = c }
            total == SumAt(transactions, ExpensePositions(transactions))
        IN /\ response.kind = "expense_breakdown"
           /\ { items[i].label : i \in DOMAIN items } = categories
           /\ Len(items) = Cardinality(categories)
           /\ \A i \in DOMAIN items :
                 LET amount == SumAt(transactions, of(items[i].label))
                 IN /\ items[i].amount = amount * 100
                    /\ total > 0 =>
                          items[i].percent = RoundHalfEven(amount * 1000, total)
                    /\ total = 0 => items[i].percent = 0
           /\ \A i, j \in DOMAIN items :
                 i < j => items[i].amount >= items[j].amount
           /\ response.total = SumOfItems(items)

\* expenses Transport 2 then Food 3 were answered Food 60.0% then Transport 40.0%
C10_Witness ==
    /\ branch = 6
    /\ Len(transactions) = 2
    /\ transactions[1].category = "Transport"
    /\ response.items = << Item("Food", 300, 600), Item("Transport", 200, 400) >>
    /\ response.total = 500

----------------------------------------------------------------------------
(* get_chatbot_response called twice with the same arguments *)

PurityRecords ==
    { Args("income", "Salary", 5, Today, ""), Args("expense", "Food", 3, Today, "") }

PurityPrepareList ==
    \E a \in PurityRecords :
        /\ branch = 0
        /\ Len(transactions) < MaxLen
        /\ transactions' = Append(transactions, Row(Len(transactions) + 1, a))
        /\ UNCHANGED <<storeVars, appVars, draft, prompt, symbol, response, branch,
                       earlier>>

PurityStoreAdd ==
    \E a \in PurityRecords :
        /\ earlier = NoCall
        /\ seq < MaxStored
        /\ add_transaction(a)
        /\ UNCHANGED <<chatVars, appVars>>

PurityStoreDelete ==
    \E id \in 1..MaxStored :
        /\ earlier = NoCall
        /\ delete_transaction(id)
        /\ UNCHANGED <<chatVars, appVars>>

PurityFirstCall ==
    \E user_input \in SamplePrompts :
        /\ branch = 0
        /\ Ask(user_input, transactions, "$")
        /\ UNCHANGED <<storeVars, appVars, draft, earlier>>

PuritySecondCall ==
    /\ branch # 0
    /\ earlier = NoCall
    /\ earlier' = Call(prompt, transactions, symbol, response)
    /\ Ask(prompt, transactions, symbol)
    /\ UNCHANGED <<storeVars, appVars, draft>>

PurityNext ==
    \/ PurityPrepareList
    \/ PurityStoreAdd
    \/ PurityStoreDelete
    \/ PurityFirstCall
    \/ PuritySecondCall

PuritySpec == Init /\ [][PurityNext]_vars

\* C6: two calls of get_chatbot_response with the same user_input,
\* transactions and currency_symbol return the same string, whatever the
\* store holds at each call.
C6_PureFunction ==
    /\ earlier # NoCall
    /\ earlier.user_input = prompt
    /\ earlier.transactions = transactions
    /\ earlier.currency_symbol = symbol
    => earlier.result = response

----------------------------------------------------------------------------
(* app.py: one action is one run of the page script, from the session     *)
(* state initialisation to the end of the selected page.  prompt, symbol,  *)
(* transactions, response and branch are locals of the run.  The chat      *)
(* history st.session_state.messages, the theme style sheet and the charts *)
(* are display only and are left out.                                      *)

Pages == {"Chat", "Analytics Dashboard", "Settings"}

CURRENCY_SYMBOLS == [USD |-> "$", EUR |-> "euro", GBP |-> "pound", INR |-> "rupee"]

\* values entered in the forms of the Settings page
FormAmounts == {-1, 0, 1}
FormDates == {Today}

PageOp(name) == [name |-> name, id |-> 0, args |-> NoArgs]

\* lines 26-29: the key "transactions" is set once per session
InitSessionState ==
    IF session.has_transactions THEN session
    ELSE [has_transactions |-> TRUE, transactions |-> get_transactions(rows)]

\* the locals of a run that does not answer a question
NoAnswer ==
    /\ prompt' = <<>>
    /\ symbol' = ""
    /\ transactions' = <<>>
    /\ response' = NoResponse
    /\ branch' = 0
    /\ UNCHANGED <<draft, earlier>>

\* first run of a session: the radio shows its first option
OpenApp ==
    /\ page = NoPage
    /\ page' = "Chat"
    /\ session' = InitSessionState
    /\ op' = PageOp("open")
    /\ NoAnswer
    /\ UNCHANGED <<rows, seq, added, deleted, history>>

\* a run after the sidebar radio was set to p
SelectPage(p) ==
    /\ page # NoPage
    /\ page' = p
    /\ session' =
          IF p = "Analytics Dashboard"
          THEN [has_transactions |-> TRUE, transactions |-> get_transactions(rows)]
          ELSE InitSessionState
    /\ op' = PageOp("select")
    /\ NoAnswer
    /\ UNCHANGED <<rows, seq, added, deleted, history>>

\* Chat page: a question submitted in st.chat_input
SubmitChat(user_input, currency) ==
    /\ page = "Chat"
    /\ session' = InitSessionState
    /\ Ask(user_input, InitSessionState.transactions, CURRENCY_SYMBOLS[currency])
    /\ op' = PageOp("chat")
    /\ UNCHANGED <<rows, seq, added, deleted, history, page, draft, earlier>>

\* (a form that lets a zero amount through)
SubmitFormFromZero(type, category, amount, date, desc) ==
    /\ page = "Settings"
    /\ IF amount >= 0
       THEN add_transaction(Args(type, category, amount, date, desc))
       ELSE /\ op' = [name |-> "rejected", id |-> 0,
                      args |-> Args(type, category, amount, date, desc)]
            /\ UNCHANGED <<rows, seq, added, deleted, history>>
    /\ session' = InitSessionState
    /\ NoAnswer
    /\ UNCHANGED page

\* Settings page: income_form or expense_form submitted
SubmitForm(type, category, amount, date, desc) ==
    /\ page = "Settings"
    /\ IF amount > 0
       THEN add_transaction(Args(type, category, amount, date, desc))
       ELSE /\ op' = [name |-> "rejected", id |-> 0,
                      args |-> Args(type, category, amount, date, desc)]
            /\ UNCHANGED <<rows, seq, added, deleted, history>>
    /\ session' = InitSessionState
    /\ NoAnswer
    /\ UNCHANGED page

\* f"{t['id']} - {t['date']} - {t['type'].upper()} - {t['category']} - ..."
TransactionOption(t, currency_symbol) ==
    <<t.id, t.date, t.type, t.category, currency_symbol, Fmt2(Whole(t.amount))>>

\* int(transaction_to_delete.split(" - ")[0])
OptionId(option) == Head(option)

\* Settings page: the Delete button pressed for the selected option
DeleteSelected(i, currency) ==
    LET options ==
            [k \in DOMAIN get_transactions(rows) |->
                TransactionOption(get_transactions(rows)[k], CURRENCY_SYMBOLS[currency])]
    IN /\ page = "Settings"
       /\ i \in DOMAIN options
       /\ delete_transaction(OptionId(options[i]))
       /\ session' = InitSessionState
       /\ NoAnswer
       /\ UNCHANGED page

AppSelectPage == \E p \in Pages : SelectPage(p)

AppSubmitChat == \E user_input \in SamplePrompts, c \in {"USD", "EUR"} : SubmitChat(user_input, c)

AppSubmitIncome ==
    \E amount \in FormAmounts, date \in FormDates :
        /\ amount > 0 => seq < MaxAdds
        /\ SubmitForm("income", "Salary", amount, date, "")

AppSubmitExpense ==
    \E amount \in FormAmounts, date \in FormDates :
        /\ amount > 0 => seq < MaxAdds
        /\ SubmitForm("expense", "Food", amount, date, "")

AppDeleteSelected == \E i \in 1..MaxAdds, c \in {"USD", "EUR"} : DeleteSelected(i, c)

AppNext ==
    \/ OpenApp
    \/ AppSelectPage
    \/ AppSubmitChat
    \/ AppSubmitIncome
    \/ AppSubmitExpense
    \/ AppDeleteSelected

AppSpec == Init /\ [][AppNext]_vars

\* C7: whenever the Chat page answers a question, the list it passes to
\* get_chatbot_response is what get_transactions returns at that moment.
C7_ChatSeesStore ==
    op.name = "chat" => transactions = get_transactions(rows)

----------------------------------------------------------------------------
(* get_spending_trends on lists dated around the two 30-day windows *)

\* today + 1, today, today - 30, today - 31, today - 60, today - 61
TrendDates ==
    { <<2024, 3, 16>>, <<2024, 3, 15>>, <<2024, 2, 14>>, <<2024, 2, 13>>,
      <<2024, 1, 15>>, <<2024, 1, 14>> }

TrendRecords ==
    { Args("expense", "Food", a, d, "") : a \in {2, 3}, d \in TrendDates }
    \cup { Args("expense", "Food", 0, <<2024, 2, 13>>, ""),
           Args("income", "Salary", 5, <<2024, 3, 15>>, "") }

TrendPrepareList ==
    \E a \in TrendRecords :
        /\ branch = 0
        /\ Len(transactions) < MaxTrendLen
        /\ transactions' = Append(transactions, Row(Len(transactions) + 1, a))
        /\ UNCHANGED <<storeVars, appVars, draft, prompt, symbol, response, branch,
                       earlier>>

TrendAsk ==
    \E user_input \in { <<"T", "r", "e", "n", "d">>,
                        <<"s", "p", "e", "n", "d", "i", "n", "g", " ", "p", "a", "t", "t", "e", "r", "n">> } :
        /\ branch = 0
        /\ Ask(user_input, transactions, "$")
        /\ UNCHANGED <<storeVars, appVars, draft, earlier>>

TrendNext == TrendPrepareList \/ TrendAsk

TrendSpec == Init /\ [][TrendNext]_vars

\* the expense total of the records whose date satisfies InWindow
ExpensesDated(txs, InWindow(_)) ==
    SumAt(txs, { i \in ExpensePositions(txs) : InWindow(txs[i].date) })

C11_InRecentWindow(d) == DateLE(<<2024, 2, 14>>, d) /\ DateLE(d, <<2024, 3, 15>>)

C11_FromRecentStart(d) == DateLE(<<2024, 2, 14>>, d)

C11_InPreviousWindow(d) == DateLE(<<2024, 1, 15>>, d) /\ DateLT(d, <<2024, 2, 14>>)

C11_Direction(recent, previous) ==
    IF recent > previous THEN "increase"
    ELSE IF recent < previous THEN "decrease" ELSE "no change"

\* C11 as stated: for every non-empty list get_spending_trends reports the
\* percent change of the expense total dated today-30..today against the
\* expense total dated today-60..today-31, with its direction.
C11_AsStated ==
    branch = 7 /\ transactions # <<>> =>
        LET recent == ExpensesDated(transactions, C11_InRecentWindow)
            previous == ExpensesDated(transactions, C11_InPreviousWindow)
        IN /\ response.kind = "spending_trends"
           /\ Len(response.items) = 3
           /\ response.items[1].amount = recent * 100
           /\ previous > 0 =>
                 /\ response.items[3].label = C11_Direction(recent, previous)
                 /\ response.items[3].percent =
                       RoundHalfEven(Abs(recent - previous) * 1000, previous)

\* C11 as amended: with no transaction dated today-30 or later the answer is
\* the no-recent message; otherwise the total is the expense total of every
\* date from today-30 on (later dates than today included), and the trend
\* line is there exactly when the window today-60..today-31 holds an
\* expense: the percent change against that window's total with its
\* direction, or 0 and "no change" when that total is 0.  No record is in
\* both totals and none dated before today-60 is in either.
C11_Trends ==
    branch = 7 /\ transactions # <<>> =>
        LET recent == ExpensesDated(transactions, C11_FromRecentStart)
            previous == ExpensesDated(transactions, C11_InPreviousWindow)
            has_recent ==
                \E i \in DOMAIN transactions :
                    C11_FromRecentStart(transactions[i].date)
            has_previous ==
                \E i \in ExpensePositions(transactions) :
                    C11_InPreviousWindow(transactions[i].date)
            items == response.items
        IN /\ ~has_recent <=> response.kind = "no_recent_transactions"
           /\ has_recent =>
                 /\ response.kind = "spending_trends"
                 /\ items[1].amount = recent * 100
                 /\ Len(items) = IF has_previous THEN 3 ELSE 2
                 /\ has_previous /\ previous > 0 =>
                       /\ items[3].label = C11_Direction(recent, previous)
                       /\ items[3].percent =
                             RoundHalfEven(Abs(recent - previous) * 1000, previous)
                 /\ has_previous /\ previous = 0 =>
                       items[3].label = "no change" /\ items[3].percent = 0
           /\ \A i \in DOMAIN transactions :
                 ~(/\ C11_FromRecentStart(transactions[i].date)
                   /\ C11_InPreviousWindow(transactions[i].date))

\* expenses of 3 on today-30 and of 2 on today-60, and one on today-61, were
\* answered with a 50.0% increase
C11_Witness ==
    /\ branch = 7
    /\ Len(transactions) = 3
    /\ transactions[1].date = <<2024, 2, 14>>
    /\ transactions[2].date = <<2024, 1, 15>>
    /\ transactions[3].date = <<2024, 1, 14>>
    /\ Len(response.items) = 3
    /\ response.items[3] = Item("increase", 0, 500)

----------------------------------------------------------------------------
(* get_financial_insights on stores around the savings-rate tiers *)

OverviewInputs ==
    { Args("income", "Salary", a, Today, "") : a \in {5, 10} }
    \cup { Args("expense", "Food", a, Today, "") : a \in {3, 4, 5, 7, 9} }

OverviewPrepareStore ==
    \E a \in OverviewInputs :
        /\ branch = 0
        /\ Len(rows) < MaxStored
        /\ add_transaction(a)
        /\ UNCHANGED <<chatVars, appVars>>

OverviewAsk ==
    \E user_input \in { <<"H", "i">>,
                        <<"h", "o", "w", " ", "a", "m", " ", "I", " ", "d", "o", "i", "n", "g">> } :
        /\ branch = 0
        /\ Ask(user_input, transactions, "$")
        /\ UNCHANGED <<storeVars, appVars, draft, earlier>>

OverviewNext == OverviewPrepareStore \/ OverviewAsk

OverviewSpec == Init /\ [][OverviewNext]_vars

StoredIncome == SumAt(rows, DOMAIN rows \ ExpensePositions(rows))

StoredExpenses == SumAt(rows, ExpensePositions(rows))

StoredBalance == StoredIncome - StoredExpenses

Says(line) == \E i \in DOMAIN response.note : response.note[i] = line

C12_Commentary ==
    { line \in { "spending more than you earn", "balanced",
                 "increase to at least 20%", "Excellent savings rate" } : Says(line) }

\* C12 as stated: a negative balance gives the overspending warning, a
\* savings rate (balance / total_income x 100) below 20 the advice to reach
\* 20%, a rate from 20 up to but excluding 40 neither the advice nor the
\* 'excellent' message, a rate of 40 or more the 'excellent' message.
C12_AsStated ==
    branch = 9 /\ StoredIncome > 0 =>
        IF StoredBalance < 0
        THEN C12_Commentary = { "spending more than you earn" }
        ELSE IF StoredBalance * 100 < 20 * StoredIncome
        THEN C12_Commentary = { "increase to at least 20%" }
        ELSE IF StoredBalance * 100 < 40 * StoredIncome
        THEN C12_Commentary = {}
        ELSE C12_Commentary = { "Excellent savings rate" }

\* C12 as amended: a negative balance gives the overspending warning and a
\* zero balance the 'balanced' line; a positive balance gives the advice to
\* reach 20% when the savings rate is below 20, neither line from 20 up to
\* but excluding 40, and the 'excellent' line from 40 on; every summary
\* gets exactly one of the five.
C12_Tiers ==
    branch = 9 =>
        /\ response.kind = "financial_overview"
        /\ response.note =
              IF StoredBalance < 0 THEN << "spending more than you earn" >>
              ELSE IF StoredBalance = 0 THEN << "balanced" >>
              ELSE IF StoredBalance * 100 < 20 * StoredIncome
              THEN << "Great job", "increase to at least 20%" >>
              ELSE IF StoredBalance * 100 < 40 * StoredIncome
              THEN << "Great job" >>
              ELSE << "Great job", "Excellent savings rate" >>
        /\ Cardinality(C12_Commentary) <= 1
        /\ StoredBalance > 0 =>
              response.items[4].percent =
                  RoundHalfEven(StoredBalance * 1000, StoredIncome)

\* an income of 5 and an expense of 3: a savings rate of exactly 40.0
C12_Witness ==
    /\ branch = 9
    /\ StoredIncome = 5
    /\ StoredExpenses = 3
    /\ response.items[4].percent = 400
    /\ Says("Excellent savings rate")

----------------------------------------------------------------------------
(* The forms of the Settings page *)

C13_StoredValid ==
    \A i \in DOMAIN rows :
        rows[i].amount > 0 /\ rows[i].type \in {"income", "expense"}

C13_Submission ==
    op'.name \in {"add", "rejected"} =>
        IF op'.args.amount > 0
        THEN op'.name = "add" /\ Len(rows') = Len(rows) + 1
        ELSE op'.name = "rejected" /\ rows' = rows /\ seq' = seq

\* C13: every record stored through the Add Income and Add Expense forms has
\* amount > 0 and type income or expense, and a submission with a zero or
\* negative amount does not reach add_transaction and leaves the store as
\* it was.
C13_Forms == [](C13_StoredValid) /\ [][C13_Submission]_vars

\* an income and an expense are stored and a submission of -1 was turned down
C13_Witness ==
    /\ op.name = "rejected"
    /\ op.args.amount = -1
    /\ Len(rows) = 2
    /\ rows[1].type # rows[2].type

----------------------------------------------------------------------------
(* Ids over the life of the table *)

C14_NeverReused == \A s, t \in history : s.id = t.id => s = t

C14_Step ==
    /\ op'.name = "add" =>
          /\ Cardinality(Range(rows') \ Range(rows)) = 1
          /\ \A r \in Range(rows') \ Range(rows) : \A s \in history : s.id < r.id
    /\ op'.name = "delete" =>
          \A r \in Range(rows) \ Range(rows') :
              /\ r.id = op'.id
              /\ \A s \in history : s.id = op'.id => s = r

\* C14: each newly assigned id is greater than every id assigned before,
\* those of deleted records included, so no id is ever carried by two
\* records; delete_transaction(id) removes at most the record that carried
\* that id in any earlier listing, and never another record.
C14_IdsNeverReturn == [](C14_NeverReused) /\ [][C14_Step]_vars

\* the record with the largest id was deleted, the next record got a larger
\* id, and a second delete of the old id removed nothing
C14_Witness ==
    /\ op.name = "delete"
    /\ op.id = 2
    /\ Ids(rows) = {1, 3}
    /\ Cardinality(history) = 3

====
